---- MODULE Spec2Model ----
(***************************************************************************)
(* Model of the policy-files upload service: the POST /upload handler of   *)
(* server.js (src/unnamed/part_001), the lazily initialised Firebase       *)
(* bucket of firebase.js (src/unnamed/part_002), the Supabase storage      *)
(* bucket and the documents table the handler writes to.                   *)
(*                                                                         *)
(* Every request is a small process: one action per run of handler code    *)
(* between two awaits (or between an event registration and its callback). *)
(* External calls complete with an outcome chosen nondeterministically.    *)
(***************************************************************************)
EXTENDS Integers, Sequences, FiniteSets, TLC

VARIABLES
    env,            \* process.env and module-level configuration, fixed at start
    initialized,    \* firebase.js: let initialized
    bucket,         \* firebase.js: let bucket
    fbObjects,      \* keys of the objects held by the Firebase bucket
    sbObjects,      \* keys of the objects held by the Supabase bucket
    documents,      \* rows of the documents table
    now,            \* Date.now()
    nextUuid,       \* source of fresh uuidv4() values
    reqs,           \* the upload requests, by request number
    qenv,           \* process.env as documents.js reads it (SUPABASE_URL, FIREBASE_STORAGE_BUCKET)
    qres            \* the last call of a documents.js route and its response

vars == <<env, initialized, bucket, fbObjects, sbObjects, documents, now, nextUuid, reqs,
          qenv, qres>>

----------------------------------------------------------------------------
(* Bounds of the model *)

MaxReq == 2         \* number of upload requests
MaxTick == 1        \* number of times the clock advances
T0 == 9             \* Date.now() when the server starts

Requests == 1..MaxReq

----------------------------------------------------------------------------
(* Values *)

Absent == "<absent>"        \* a form field that was not sent (undefined)
Null == "<null>"            \* SQL NULL / JS null
NoKey == << >>              \* no object key
NoId == << >>               \* no document id
NoUrl == [backend |-> "none", path |-> NoKey, expires |-> 0, expiresIn |-> 0]

\* JS truthiness of a form field (a string or undefined)
Truthy(v) == v \notin {Absent, ""}

\* originalname values sent by clients, as character sequences
Names == { <<"a">>, <<"1", "_", "a">> }

\* (project_id, projectId) pairs sent in the multipart body
Bodies == { <<Absent, Absent>>, <<"", Absent>>, <<"p1", Absent>>,
            <<Absent, "p2">>, <<"p1", "p2">> }

FirebaseBucketHandle == "firebase-bucket"

\* error messages
MsgNoFile == "No file uploaded"
MsgFbNotInit == "Firebase Storage not initialized. Set FIREBASE_SERVICE_ACCOUNT or FIREBASE_SERVICE_ACCOUNT_PATH."
MsgFbCert == "firebase: credential error"
MsgFbStream == "firebase: stream error"
MsgFbSign == "firebase: getSignedUrl error"
MsgNoSbBucket == "SUPABASE_BUCKET not configured"
MsgSbUpload == "supabase: upload error"
MsgSbUploadThrown == "supabase: upload threw"
MsgSbSign == "supabase: createSignedUrl error"
MsgSbSignThrown == "supabase: createSignedUrl threw"
MsgNoProject == "project_id is required"
MsgNoDb == "DATABASE_URL not configured"
MsgDb == "pg: query error"

PrimaryMessages == {MsgFbNotInit, MsgFbCert, MsgFbStream}

----------------------------------------------------------------------------
(* server.js: const dest = `${timestamp}_${originalName}` *)

DigitChars == <<"0", "1", "2", "3", "4", "5", "6", "7", "8", "9">>

RECURSIVE Digits(_)
\* String(n) for a non-negative integer, as a character sequence
Digits(n) == IF n < 10 THEN <<DigitChars[n + 1]>>
             ELSE Digits(n \div 10) \o <<DigitChars[(n % 10) + 1]>>

Dest(timestamp, originalName) == Digits(timestamp) \o <<"_">> \o originalName

----------------------------------------------------------------------------
(* firebase.js *)

\* initIfPossible(): the outcome of one call in the current state
\*   threw: admin.credential.cert / initializeApp rejected the service account
\*   attempted: the call went on to admin.initializeApp (line 27)
InitIfPossible_noGuard ==
    IF env.fbCreds = "none"
    THEN [threw |-> FALSE, initialized |-> FALSE, bucket |-> bucket, attempted |-> FALSE]
    ELSE IF env.fbCreds = "bad"
         THEN [threw |-> TRUE, initialized |-> initialized, bucket |-> bucket,
               attempted |-> TRUE]
    ELSE [threw |-> FALSE, initialized |-> TRUE, bucket |-> FirebaseBucketHandle,
          attempted |-> TRUE]

InitIfPossible ==
    IF initialized
    THEN [threw |-> FALSE, initialized |-> initialized, bucket |-> bucket,
          attempted |-> FALSE]
    ELSE IF env.fbCreds = "none"
         THEN [threw |-> FALSE, initialized |-> FALSE, bucket |-> bucket,
               attempted |-> FALSE]
    ELSE IF env.fbCreds = "bad"
         THEN [threw |-> TRUE, initialized |-> initialized, bucket |-> bucket,
               attempted |-> TRUE]
    ELSE [threw |-> FALSE, initialized |-> TRUE, bucket |-> FirebaseBucketHandle,
          attempted |-> TRUE]

\* getBucket(): ok with the handle, or the message of the error thrown
GetBucket ==
    LET i == InitIfPossible IN
    IF i.threw
    THEN [ok |-> FALSE, err |-> MsgFbCert, handle |-> Null,
          initialized |-> i.initialized, bucket |-> i.bucket, attempted |-> i.attempted]
    ELSE IF i.bucket = Null
    THEN [ok |-> FALSE, err |-> MsgFbNotInit, handle |-> Null,
          initialized |-> i.initialized, bucket |-> i.bucket, attempted |-> i.attempted]
    ELSE [ok |-> TRUE, err |-> "", handle |-> i.bucket,
          initialized |-> i.initialized, bucket |-> i.bucket, attempted |-> i.attempted]

----------------------------------------------------------------------------
(* Signed URLs, as the parameters the backend is asked to sign *)

FirebaseSignedUrl_oneMinute(path, t) ==
    [backend |-> "firebase", path |-> path, expires |-> t + 60 * 1000, expiresIn |-> 0]

\* file.getSignedUrl({ action: 'read', expires: Date.now() + 60 * 60 * 1000 })
FirebaseSignedUrl(path, t) ==
    [backend |-> "firebase", path |-> path, expires |-> t + 60 * 60 * 1000, expiresIn |-> 0]

\* supabase.storage.from(bucketName).createSignedUrl(path, 60 * 60)
SupabaseSignedUrl(path) ==
    [backend |-> "supabase", path |-> path, expires |-> 0, expiresIn |-> 60 * 60]

----------------------------------------------------------------------------
(* Responses: res.status(s).json(body) *)

Response(status, keys, error, document_id, message, name, url) ==
    [status |-> status, keys |-> keys, error |-> error, document_id |-> document_id,
     message |-> message, name |-> name, url |-> url]

ErrorResponse(status, msg) == Response(status, {"error"}, msg, NoId, "", NoKey, NoUrl)

\* res.json({ name: dest, url })
NameUrlResponse(name, url) == Response(200, {"name", "url"}, "", NoId, "", name, url)

\* res.json({ document_id, message: 'upload successfully', name: path, url })
DocumentResponse(id, name, url) ==
    Response(200, {"document_id", "message", "name", "url"}, "", id,
             "upload successfully", name, url)

\* the handler sends a response and returns
Respond(q, resp) == [q EXCEPT !.res = Append(@, resp), !.pc = "done"]

----------------------------------------------------------------------------
(* The documents row an upload inserts *)

NewDocument_filenameAsPath(id, projectId, filename, file_path) ==
    [id |-> id, project_id |-> projectId, filename |-> filename, file_path |-> filename,
     source |-> "Upload", status |-> "pending", document_content |-> Null]

NewDocument(id, projectId, filename, file_path) ==
    [id |-> id, project_id |-> projectId, filename |-> filename, file_path |-> file_path,
     source |-> "Upload", status |-> "pending", document_content |-> Null]

\* const projectId = req.body.project_id || req.body.projectId
ProjectIdOf(q) == IF Truthy(q.project_id) THEN q.project_id ELSE q.projectId

----------------------------------------------------------------------------
(* Requests *)

\* The handler's locals and position (pc), the calls it has made, the responses it
\* has sent (res), and the outcome of each external call it made:
\*   fbOutcome      "" | "unavailable" (getBucket threw) | "finish" | "error"
\*   fbSignOutcome  "" | "ok" | "error"
\*   sbPutOutcome, sbSignOutcome   "" | "ok" | "error" | "throw"
\*   dbOutcome      "" | "ok" | "error"
NewRequest ==
    [pc |-> "new", file |-> FALSE, originalName |-> NoKey,
     project_id |-> Absent, projectId |-> Absent,
     timestamp |-> 0, dest |-> NoKey, fbErr |-> "",
     signedUrl |-> NoUrl, signAt |-> 0, id |-> NoId,
     fbGets |-> 0, fbWrites |-> 0, fbSigns |-> 0, sbPuts |-> 0, sbSigns |-> 0,
     dbInserts |-> 0,
     fbOutcome |-> "", fbSignOutcome |-> "", sbPutOutcome |-> "", sbSignOutcome |-> "",
     dbOutcome |-> "", fbHandle |-> Null, fbInit |-> FALSE,
     res |-> << >>]

\* uuidv4(): a value no earlier call returned
Uuid(n) == <<"uuid", n>>

----------------------------------------------------------------------------
(* POST /upload, server.js lines 78-157 *)

\* lines 111-121, the catch (fbErr) branch up to the awaited Supabase upload
FallbackStart_wrongMessage(q, fbErrMsg) ==
    LET q1 == [q EXCEPT !.fbErr = fbErrMsg] IN
    IF ~env.supabase THEN Respond(q1, ErrorResponse(500, MsgNoSbBucket))
    ELSE IF ~env.sbBucket THEN Respond(q1, ErrorResponse(500, MsgNoSbBucket))
    ELSE [q1 EXCEPT !.sbPuts = @ + 1, !.pc = "sb_put"]

FallbackStart_noFallback(q, fbErrMsg) ==
    Respond([q EXCEPT !.fbErr = fbErrMsg], ErrorResponse(500, fbErrMsg))

FallbackStart(q, fbErrMsg) ==
    LET q1 == [q EXCEPT !.fbErr = fbErrMsg] IN
    IF ~env.supabase THEN Respond(q1, ErrorResponse(500, fbErrMsg))
    ELSE IF ~env.sbBucket THEN Respond(q1, ErrorResponse(500, MsgNoSbBucket))
    ELSE [q1 EXCEPT !.sbPuts = @ + 1, !.pc = "sb_put"]

\* lines 88-108: the stream is created, the handlers registered, the write started
PrimaryStart(q) == [q EXCEPT !.fbWrites = @ + 1, !.pc = "fb_write"]

\* lines 80-108 and 109-121: the handler up to its first suspension;
\* g is the outcome of firebase.getBucket()
HandlerStart_noFileCheck(q, g) ==
    LET q1 == [q EXCEPT !.timestamp = now, !.dest = Dest(now, q.originalName),
                        !.fbGets = @ + 1] IN
    IF g.ok THEN PrimaryStart(q1) ELSE FallbackStart(q1, g.err)

HandlerStart(q, g) ==
    IF ~q.file THEN Respond(q, ErrorResponse(400, MsgNoFile))
    ELSE LET q1 == [q EXCEPT !.timestamp = now, !.dest = Dest(now, q.originalName),
                             !.fbGets = @ + 1] IN
         IF g.ok THEN PrimaryStart(q1) ELSE FallbackStart(q1, g.err)

\* A request arrives: multer has parsed the form; the handler runs to its first await.
\* Requests are numbered in their order of arrival.
Receive(r) ==
    /\ reqs[r].pc = "new"
    /\ \A o \in Requests : o < r => reqs[o].pc # "new"
    /\ \E file \in BOOLEAN, name \in Names, body \in Bodies :
         LET q == [reqs[r] EXCEPT !.file = file,
                                  !.originalName = IF file THEN name ELSE NoKey,
                                  !.project_id = body[1], !.projectId = body[2]]
             g == GetBucket
             q2 == HandlerStart(q, g)
             called == q2.fbGets > 0
         IN /\ (~file => name = CHOOSE n \in Names : TRUE)
            /\ reqs' = [reqs EXCEPT ![r] =
                          [q2 EXCEPT !.fbOutcome = IF called /\ ~g.ok THEN "unavailable" ELSE "",
                                     !.fbHandle = IF called THEN g.handle ELSE Null,
                                     !.fbInit = called /\ g.attempted]]
            /\ IF called
               THEN initialized' = g.initialized /\ bucket' = g.bucket
               ELSE UNCHANGED <<initialized, bucket>>
    /\ UNCHANGED <<qenv, qres, env, fbObjects, sbObjects, documents, now, nextUuid>>

\* lines 93-96: stream.on('error')
AfterStreamError_fallBack(q) == FallbackStart(q, MsgFbStream)

AfterStreamError(q) == Respond(q, ErrorResponse(500, MsgFbStream))

FbStreamError(r) ==
    /\ reqs[r].pc = "fb_write"
    /\ reqs' = [reqs EXCEPT ![r] = [AfterStreamError(reqs[r]) EXCEPT !.fbOutcome = "error"]]
    /\ UNCHANGED <<qenv, qres, env, initialized, bucket, fbObjects, sbObjects, documents, now, nextUuid>>

\* lines 98-100: stream.on('finish') up to the awaited getSignedUrl
AfterStreamFinish(q) ==
    [q EXCEPT !.fbSigns = @ + 1, !.signedUrl = FirebaseSignedUrl(q.dest, now),
              !.pc = "fb_sign"]

FbStreamFinish(r) ==
    /\ reqs[r].pc = "fb_write"
    /\ fbObjects' = fbObjects \cup {reqs[r].dest}
    /\ reqs' = [reqs EXCEPT ![r] =
                  [AfterStreamFinish(reqs[r]) EXCEPT !.fbOutcome = "finish", !.signAt = now]]
    /\ UNCHANGED <<qenv, qres, env, initialized, bucket, sbObjects, documents, now, nextUuid>>

\* lines 100-104: getSignedUrl settles
AfterFbSign(q, ok) ==
    IF ok THEN Respond(q, NameUrlResponse(q.dest, q.signedUrl))
    ELSE Respond([q EXCEPT !.signedUrl = NoUrl], ErrorResponse(500, MsgFbSign))

FbSignComplete_persist(r) ==
    /\ reqs[r].pc = "fb_sign"
    /\ \E ok \in BOOLEAN :
         /\ reqs' = [reqs EXCEPT ![r] =
                       [AfterFbSign([reqs[r] EXCEPT !.id = Uuid(nextUuid), !.dbInserts = @ + 1], ok)
                          EXCEPT !.fbSignOutcome = IF ok THEN "ok" ELSE "error"]]
         /\ documents' = documents \cup
              {NewDocument(Uuid(nextUuid), ProjectIdOf(reqs[r]), reqs[r].originalName, reqs[r].dest)}
         /\ nextUuid' = nextUuid + 1
    /\ UNCHANGED <<qenv, qres, env, initialized, bucket, fbObjects, sbObjects, now>>

FbSignComplete(r) ==
    /\ reqs[r].pc = "fb_sign"
    /\ \E ok \in BOOLEAN :
         reqs' = [reqs EXCEPT ![r] =
                    [AfterFbSign(reqs[r], ok) EXCEPT !.fbSignOutcome = IF ok THEN "ok" ELSE "error"]]
    /\ UNCHANGED <<qenv, qres, env, initialized, bucket, fbObjects, sbObjects, documents, now, nextUuid>>

\* Outcomes of a Supabase storage call: { data, error: null }, { error }, or a throw
Outcomes == {"ok", "error", "throw"}

\* lines 118-124: the upload settles; on success createSignedUrl is awaited
AfterSbPut_ignoreError(q, outcome) ==
    IF outcome = "throw" THEN Respond(q, ErrorResponse(500, MsgSbUploadThrown))
    ELSE [q EXCEPT !.sbSigns = @ + 1, !.signedUrl = SupabaseSignedUrl(q.dest),
                   !.pc = "sb_sign"]

AfterSbPut_noReturn(q, outcome) ==
    IF outcome = "throw" THEN Respond(q, ErrorResponse(500, MsgSbUploadThrown))
    ELSE [q EXCEPT !.res = IF outcome = "error" THEN Append(@, ErrorResponse(500, MsgSbUpload))
                            ELSE @,
                   !.sbSigns = @ + 1, !.signedUrl = SupabaseSignedUrl(q.dest),
                   !.pc = "sb_sign"]

AfterSbPut(q, outcome) ==
    IF outcome = "error" THEN Respond(q, ErrorResponse(500, MsgSbUpload))
    ELSE IF outcome = "throw" THEN Respond(q, ErrorResponse(500, MsgSbUploadThrown))
    ELSE [q EXCEPT !.sbSigns = @ + 1, !.signedUrl = SupabaseSignedUrl(q.dest),
                   !.pc = "sb_sign"]

\* upsert: false -- the bucket refuses a key it already holds
SbPutComplete_upsert(r) ==
    /\ reqs[r].pc = "sb_put"
    /\ \E outcome \in Outcomes :
         /\ sbObjects' = IF outcome = "ok" THEN sbObjects \cup {reqs[r].dest} ELSE sbObjects
         /\ reqs' = [reqs EXCEPT ![r] =
                       [AfterSbPut(reqs[r], outcome) EXCEPT !.sbPutOutcome = outcome]]
    /\ UNCHANGED <<qenv, qres, env, initialized, bucket, fbObjects, documents, now, nextUuid>>

SbPutComplete(r) ==
    /\ reqs[r].pc = "sb_put"
    /\ \E outcome \in Outcomes :
         /\ outcome = "ok" => reqs[r].dest \notin sbObjects
         /\ sbObjects' = IF outcome = "ok" THEN sbObjects \cup {reqs[r].dest} ELSE sbObjects
         /\ reqs' = [reqs EXCEPT ![r] =
                       [AfterSbPut(reqs[r], outcome) EXCEPT !.sbPutOutcome = outcome]]
    /\ UNCHANGED <<qenv, qres, env, initialized, bucket, fbObjects, documents, now, nextUuid>>

\* lines 124-143: createSignedUrl settles; project_id and pool are checked; the
\* insert is awaited
AfterSbSign_ignoreSignErr(q, outcome) ==
    IF outcome = "throw"
    THEN Respond([q EXCEPT !.signedUrl = NoUrl], ErrorResponse(500, MsgSbSignThrown))
    ELSE IF ~Truthy(ProjectIdOf(q)) THEN Respond(q, ErrorResponse(400, MsgNoProject))
    ELSE IF ~env.pool THEN Respond(q, ErrorResponse(500, MsgNoDb))
    ELSE [q EXCEPT !.id = Uuid(nextUuid), !.dbInserts = @ + 1, !.pc = "db_insert"]

AfterSbSign_noProjectCheck(q, outcome) ==
    IF outcome = "error"
    THEN Respond([q EXCEPT !.signedUrl = NoUrl], ErrorResponse(500, MsgSbSign))
    ELSE IF outcome = "throw"
    THEN Respond([q EXCEPT !.signedUrl = NoUrl], ErrorResponse(500, MsgSbSignThrown))
    ELSE IF ~env.pool THEN Respond(q, ErrorResponse(500, MsgNoDb))
    ELSE [q EXCEPT !.id = Uuid(nextUuid), !.dbInserts = @ + 1, !.pc = "db_insert"]

AfterSbSign(q, outcome) ==
    IF outcome = "error"
    THEN Respond([q EXCEPT !.signedUrl = NoUrl], ErrorResponse(500, MsgSbSign))
    ELSE IF outcome = "throw"
    THEN Respond([q EXCEPT !.signedUrl = NoUrl], ErrorResponse(500, MsgSbSignThrown))
    ELSE IF ~Truthy(ProjectIdOf(q)) THEN Respond(q, ErrorResponse(400, MsgNoProject))
    ELSE IF ~env.pool THEN Respond(q, ErrorResponse(500, MsgNoDb))
    ELSE [q EXCEPT !.id = Uuid(nextUuid), !.dbInserts = @ + 1, !.pc = "db_insert"]

SbSignComplete(r) ==
    /\ reqs[r].pc = "sb_sign"
    /\ \E outcome \in Outcomes :
         LET q2 == AfterSbSign(reqs[r], outcome) IN
         /\ reqs' = [reqs EXCEPT ![r] = [q2 EXCEPT !.sbSignOutcome = outcome]]
         /\ nextUuid' = IF q2.id # NoId THEN nextUuid + 1 ELSE nextUuid
    /\ UNCHANGED <<qenv, qres, env, initialized, bucket, fbObjects, sbObjects, documents, now>>

\* lines 143-149: pool.query settles
AfterInsert_swallowError(q, ok) ==
    IF ok THEN Respond(q, DocumentResponse(q.id, q.dest, q.signedUrl))
    ELSE [q EXCEPT !.pc = "done"]

AfterInsert(q, ok) ==
    IF ok THEN Respond(q, DocumentResponse(q.id, q.dest, q.signedUrl))
    ELSE Respond(q, ErrorResponse(500, MsgDb))

\* the INSERT of line 142, executed by the database
DbInsertComplete(r) ==
    /\ reqs[r].pc = "db_insert"
    /\ \E ok \in BOOLEAN :
         /\ documents' = IF ok
                         THEN documents \cup {NewDocument(reqs[r].id, ProjectIdOf(reqs[r]),
                                                          reqs[r].originalName, reqs[r].dest)}
                         ELSE documents
         /\ reqs' = [reqs EXCEPT ![r] =
                       [AfterInsert(reqs[r], ok) EXCEPT !.dbOutcome = IF ok THEN "ok" ELSE "error"]]
    /\ UNCHANGED <<qenv, qres, env, initialized, bucket, fbObjects, sbObjects, now, nextUuid>>

\* Time passes
Tick ==
    /\ now < T0 + MaxTick
    /\ now' = now + 1
    /\ UNCHANGED <<qenv, qres, env, initialized, bucket, fbObjects, sbObjects, documents, nextUuid, reqs>>

----------------------------------------------------------------------------
(* documents.js: values *)

\* a filename column holding NULL (filenames are character sequences)
NullName == <<Null>>

\* the value of SUPABASE_BUCKET when it is set
SbBucketName == <<"b">>

\* SUPABASE_URL: unset, or a URL with or without a trailing slash
SupabaseUrls == { << >>, <<"https://x.supabase.co">>, <<"https://x.supabase.co", "/">> }

\* FIREBASE_STORAGE_BUCKET: unset or set
FbBucketNames == { << >>, <<"policy-file">> }

QEnvs == [supabaseUrl : SupabaseUrls, fbStorageBucket : FbBucketNames]

MsgNotFound == "document not found"
MsgNoFilename == "Document filename not found in database"
MsgPreviewFailed == "Failed to generate preview URL: supabase: createSignedUrl threw"
MsgNoPreviewStorage == "Storage not configured for preview URL generation"

\* the summary of a response that carries none
NoSummary == [sources |-> << >>, total_processed |-> 0, total_analysed |-> 0, total |-> 0]

\* A call of a documents.js route and what it answered:
\*   op       "none" | "upload-or-other" | "scraped" | "preview" | "summary"
\*   project, id   the path parameter
\*   documents     the rows of a listing, in order
\*   kind     which preview_url was returned: "signed" | "public" | "legacy" | "none"
\*   signed   the signed URL (kind "signed");  url   the constructed URL (otherwise)
\*   queries, signs   database queries and storage signing calls the route made
\*   signOutcome      how the signing call settled, if one was made
QResponse(op, project, id, status, error) ==
    [op |-> op, project |-> project, id |-> id, status |-> status, error |-> error,
     documents |-> << >>, kind |-> "none", signed |-> NoUrl, url |-> << >>,
     summary |-> NoSummary, queries |-> 0, signs |-> 0, signOutcome |-> ""]

NoQuery == QResponse("none", "", NoId, 0, "")

----------------------------------------------------------------------------
(* documents.js: SQL and string functions *)

\* lower() / toLowerCase() on the labels that occur in the table
Lower(s) ==
    CASE s = "Upload" -> "upload"
      [] s = "Other" -> "other"
      [] s = "Scrape" -> "scrape"
      [] s = "SCRAPE" -> "scrape"
      [] s = "Processed" -> "processed"
      [] s = "Analyzed" -> "analyzed"
      [] OTHER -> s

\* lower(source) IN (...): NULL is in no list
SourceIn(d, labels) == d.source # Null /\ Lower(d.source) \in labels

\* character order of ORDER BY filename
CharOrder == <<" ", ".", "/", "1", "9", "_", "a", "b", "r">>

CharRank(c) == CHOOSE i \in 1..Len(CharOrder) : CharOrder[i] = c

RECURSIVE NameLess(_, _)
\* a < b for two character sequences
NameLess(a, b) ==
    IF b = << >> THEN FALSE
    ELSE IF a = << >> THEN TRUE
    ELSE IF Head(a) = Head(b) THEN NameLess(Tail(a), Tail(b))
    ELSE CharRank(Head(a)) < CharRank(Head(b))

\* ORDER BY filename (ascending, NULLs last); rows of equal filename come in the
\* table's own order, which is the order of insertion (the id's number)
RowBefore(d, e) ==
    IF d.filename = e.filename THEN d.id[2] < e.id[2]
    ELSE IF d.filename = NullName THEN FALSE
    ELSE IF e.filename = NullName THEN TRUE
    ELSE NameLess(d.filename, e.filename)

RECURSIVE OrderByFilename(_)
OrderByFilename(rows) ==
    IF rows = {} THEN << >>
    ELSE LET first == CHOOSE d \in rows : \A e \in rows \ {d} : RowBefore(d, e)
         IN <<first>> \o OrderByFilename(rows \ {first})

\* SELECT id, filename AS file_name, created_at, status (created_at is not modelled)
ScrapedColumns(d) == [id |-> d.id, file_name |-> d.filename, status |-> d.status]

\* filename.replace(/^\/+/, '')
RECURSIVE Normalize(_)
Normalize(f) == IF f # << >> /\ Head(f) = "/" THEN Normalize(Tail(f)) ELSE f

\* encodeURIComponent of one character
EncodeChar(c) ==
    CASE c = "/" -> <<"%", "2", "F">>
      [] c = " " -> <<"%", "2", "0">>
      [] OTHER -> <<c>>

RECURSIVE EncodeURIComponent(_)
EncodeURIComponent(f) ==
    IF f = << >> THEN << >> ELSE EncodeChar(Head(f)) \o EncodeURIComponent(Tail(f))

\* supabaseUrl.replace(/\/$/, '')
StripTrailingSlash(u) ==
    IF u # << >> /\ u[Len(u)] = "/" THEN SubSeq(u, 1, Len(u) - 1) ELSE u

\* `${supabaseUrl.replace(/\/$/, '')}/storage/v1/object/public/${bucket}/${encodeURIComponent(normalized)}`
PublicUrl(supabaseUrl, bucketName, normalized) ==
    StripTrailingSlash(supabaseUrl) \o <<"/storage/v1/object/public/">> \o bucketName
        \o <<"/">> \o EncodeURIComponent(normalized)

\* `https://firebasestorage.googleapis.com/v0/b/${fbBucket}/o/${encodeURIComponent(normalized)}?alt=media`
LegacyUrl(fbBucket, normalized) ==
    <<"https://firebasestorage.googleapis.com/v0/b/">> \o fbBucket \o <<"/o/">>
        \o EncodeURIComponent(normalized) \o <<"?alt=media">>

\* createSignedUrl(normalized, 3600)
PreviewSignedUrl(normalized) ==
    [backend |-> "supabase", path |-> normalized, expires |-> 0, expiresIn |-> 3600]

----------------------------------------------------------------------------
(* documents.js: the four routes *)

Projects == {"p1", "p2"}

\* how a pool.query settles (TRUE: with rows), where there is a pool to query
QueryOutcomes == IF env.pool THEN BOOLEAN ELSE {TRUE}

\* lines 35-44 and 75-84: the checks and the query shared by the two listings;
\* rows is what the SELECT returns when it succeeds
ListResponse(op, p, dbOk, rows) ==
    IF ~env.pool THEN QResponse(op, p, NoId, 500, MsgNoDb)
    ELSE IF ~dbOk THEN [QResponse(op, p, NoId, 500, MsgDb) EXCEPT !.queries = 1]
    ELSE [QResponse(op, p, NoId, 200, "") EXCEPT !.queries = 1, !.documents = rows]

\* SELECT * FROM documents WHERE project_id = $1 AND lower(source) IN ('upload','other')
\* ORDER BY filename
UploadOrOtherRows_anyProject(p) ==
    OrderByFilename({d \in documents : SourceIn(d, {"upload", "other"})})

UploadOrOtherRows(p) ==
    OrderByFilename({d \in documents : d.project_id = p /\ SourceIn(d, {"upload", "other"})})

\* SELECT id, filename AS file_name, created_at, status FROM documents
\* WHERE project_id = $1 AND lower(source) = 'scrape' ORDER BY filename
ScrapedRows(p) ==
    LET rows == OrderByFilename({d \in documents : d.project_id = p /\ SourceIn(d, {"scrape"})})
    IN [i \in 1..Len(rows) |-> ScrapedColumns(rows[i])]

\* GET /documents/project/:project_id/upload-or-other
ListUploadOrOther(p) ==
    /\ \E dbOk \in QueryOutcomes :
         qres' = ListResponse("upload-or-other", p, dbOk, UploadOrOtherRows(p))
    /\ UNCHANGED <<env, qenv, initialized, bucket, fbObjects, sbObjects, documents, now,
                   nextUuid, reqs>>

\* GET /documents/project/:project_id/scraped
ListScraped_marksListed(p) ==
    /\ \E dbOk \in QueryOutcomes : qres' = ListResponse("scraped", p, dbOk, ScrapedRows(p))
    /\ documents' = {IF d.project_id = p /\ SourceIn(d, {"scrape"})
                      THEN [d EXCEPT !.status = "listed"] ELSE d : d \in documents}
    /\ UNCHANGED <<env, qenv, initialized, bucket, fbObjects, sbObjects, now, nextUuid, reqs>>

ListScraped(p) ==
    /\ \E dbOk \in QueryOutcomes : qres' = ListResponse("scraped", p, dbOk, ScrapedRows(p))
    /\ UNCHANGED <<env, qenv, initialized, bucket, fbObjects, sbObjects, documents, now,
                   nextUuid, reqs>>

\* const filename = doc.filename || ''
FilenameOrEmpty(f) == IF f = NullName THEN << >> ELSE f

\* Outcomes of the preview's createSignedUrl: a signed URL, an error result, a result
\* with neither error nor URL, or a throw
SignOutcomes == {"ok", "error", "empty", "throw"}

\* lines 153-171: the Supabase branch of the preview
SecondaryPreview_throwOnError(r, normalized, outcome) ==
    IF outcome = "ok"
    THEN [r EXCEPT !.status = 200, !.kind = "signed", !.signed = PreviewSignedUrl(normalized),
                   !.signs = 1]
    ELSE [r EXCEPT !.status = 500, !.error = MsgPreviewFailed, !.signs = 1]

SecondaryPreview(r, normalized, outcome) ==
    IF outcome = "ok"
    THEN [r EXCEPT !.status = 200, !.kind = "signed", !.signed = PreviewSignedUrl(normalized),
                   !.signs = 1]
    ELSE IF outcome = "throw"
    THEN [r EXCEPT !.status = 500, !.error = MsgPreviewFailed, !.signs = 1]
    ELSE [r EXCEPT !.status = 200, !.kind = "public",
                   !.url = PublicUrl(qenv.supabaseUrl, SbBucketName, normalized),
                   !.signs = 1]

\* lines 149-181: the choice of the backend, for a document with a filename
PreviewOf_legacyFirst(r, filename, outcome) ==
    IF qenv.fbStorageBucket # << >>
    THEN [r EXCEPT !.status = 200, !.kind = "legacy",
                   !.url = LegacyUrl(qenv.fbStorageBucket, Normalize(filename))]
    ELSE IF env.supabase /\ qenv.supabaseUrl # << >> /\ env.sbBucket
    THEN SecondaryPreview(r, Normalize(filename), outcome)
    ELSE [r EXCEPT !.status = 500, !.error = MsgNoPreviewStorage]

PreviewOf(r, filename, outcome) ==
    IF env.supabase /\ qenv.supabaseUrl # << >> /\ env.sbBucket
    THEN SecondaryPreview(r, Normalize(filename), outcome)
    ELSE IF qenv.fbStorageBucket # << >>
    THEN [r EXCEPT !.status = 200, !.kind = "legacy",
                   !.url = LegacyUrl(qenv.fbStorageBucket, Normalize(filename))]
    ELSE [r EXCEPT !.status = 500, !.error = MsgNoPreviewStorage]

\* lines 134-147 then the backends: the whole handler
PreviewResponse_noFilenameCheck(id, dbOk, outcome) ==
    LET r == [QResponse("preview", "", id, 0, "") EXCEPT !.queries = 1]
        rows == {d \in documents : d.id = id}
    IN IF ~env.pool THEN QResponse("preview", "", id, 500, MsgNoDb)
       ELSE IF ~dbOk THEN [r EXCEPT !.status = 500, !.error = MsgDb]
       ELSE IF rows = {} THEN [r EXCEPT !.status = 404, !.error = MsgNotFound]
       ELSE LET doc == CHOOSE d \in rows : TRUE
                filename == FilenameOrEmpty(doc.filename)
            IN PreviewOf(r, filename, outcome)

PreviewResponse(id, dbOk, outcome) ==
    LET r == [QResponse("preview", "", id, 0, "") EXCEPT !.queries = 1]
        rows == {d \in documents : d.id = id}
    IN IF ~env.pool THEN QResponse("preview", "", id, 500, MsgNoDb)
       ELSE IF ~dbOk THEN [r EXCEPT !.status = 500, !.error = MsgDb]
       ELSE IF rows = {} THEN [r EXCEPT !.status = 404, !.error = MsgNotFound]
       ELSE LET doc == CHOOSE d \in rows : TRUE
                filename == FilenameOrEmpty(doc.filename)
            IN IF filename = << >>
               THEN [r EXCEPT !.status = 500, !.error = MsgNoFilename]
               ELSE PreviewOf(r, filename, outcome)

\* GET /documents/scrape/:document_id
GetPreviewUrl(id) ==
    /\ \E dbOk \in QueryOutcomes :
         \E outcome \in (IF PreviewResponse(id, dbOk, "ok").signs > 0
                          THEN SignOutcomes ELSE {""}) :
            LET r == PreviewResponse(id, dbOk, outcome)
            IN qres' = [r EXCEPT !.signOutcome = outcome]
    /\ UNCHANGED <<env, qenv, initialized, bucket, fbObjects, sbObjects, documents, now,
                   nextUuid, reqs>>

\* SELECT source, status, COUNT(*)::int AS count FROM documents WHERE project_id = $1
\* GROUP BY source, status
AggregateRows(p) ==
    LET mine == {d \in documents : d.project_id = p}
        groups == {<<d.source, d.status>> : d \in mine}
    IN {[source |-> g[1], status |-> g[2],
         count |-> Cardinality({d \in mine : d.source = g[1] /\ d.status = g[2]})] : g \in groups}

RECURSIVE SetToSeq(_)
\* the rows of a result set, in the order the database returns them
SetToSeq(S) ==
    IF S = {} THEN << >>
    ELSE LET x == CHOOSE y \in S : TRUE IN <<x>> \o SetToSeq(S \ {x})

\* r.source || 'unknown', r.status || 'unknown'
OrUnknown(v) == IF v \in {Null, ""} THEN "unknown" ELSE v

\* obj[k] = v
Put(f, k, v) == [x \in DOMAIN f \cup {k} |-> IF x = k THEN v ELSE f[x]]

\* String(status).toLowerCase() === 'processed'
IsProcessed_caseSensitive(status) == status = "processed"

IsProcessed(status) == Lower(status) = "processed"

\* String(status).toLowerCase() === 'analysed' || ... === 'analyzed'
IsAnalysed(status) == Lower(status) = "analysed" \/ Lower(status) = "analyzed"

\* the methods every object literal ({}) inherits from Object.prototype
ObjectPrototypeKeys ==
    {"constructor", "hasOwnProperty", "isPrototypeOf", "propertyIsEnumerable",
     "toLocaleString", "toString", "valueOf"}

\* String(f) of the inherited method f found under key k
FunctionSource(k) ==
    <<"function ", IF k = "constructor" THEN "Object" ELSE k, "() { [native code] }">>

\* A JavaScript value held under a status key: the number n is <<n>>, a string is
\* the sequence of its pieces.
IsNumber(v) == Len(v) = 1

\* summary[src].status[status] of lines 226-227: the own property if there is one,
\* else the inherited method if the key names one, else undefined
StatusLookup(statuses, status) ==
    IF status \in DOMAIN statuses THEN statuses[status]
    ELSE IF status \in ObjectPrototypeKeys THEN FunctionSource(status)
    ELSE <<0>>

\* (x || 0) + cnt: addition of numbers, concatenation once x is not a number
PlusCount(x, cnt) == IF IsNumber(x) THEN <<x[1] + cnt>> ELSE x \o <<cnt>>

MsgSummaryThrown == "Cannot read properties of undefined"

\* the loop's variables before the first row; thrown: a TypeError ended the loop
SummaryStart == [sources |-> << >>, total_processed |-> 0, total_analysed |-> 0, total |-> 0,
                 thrown |-> FALSE]

\* lines 221-231: the body of the loop, for one row
SummaryStep(acc, r) ==
    LET src == OrUnknown(r.source)
        status == OrUnknown(r.status)
        cnt == r.count
        old == IF src \in DOMAIN acc.sources THEN acc.sources[src]
               ELSE [status |-> << >>, total |-> 0]
        new == [status |-> Put(old.status, status, PlusCount(StatusLookup(old.status, status), cnt)),
                total |-> old.total + cnt]
    IN IF acc.thrown THEN acc
       ELSE IF src \notin DOMAIN acc.sources /\ src \in ObjectPrototypeKeys
       THEN [acc EXCEPT !.thrown = TRUE]
       ELSE [sources |-> Put(acc.sources, src, new),
             total_processed |-> acc.total_processed + (IF IsProcessed(status) THEN cnt ELSE 0),
             total_analysed |-> acc.total_analysed + (IF IsAnalysed(status) THEN cnt ELSE 0),
             total |-> acc.total + cnt,
             thrown |-> FALSE]

RECURSIVE SummaryLoop(_, _)
\* lines 215-232: for (const r of rows) { ... }
SummaryLoop(rows, acc) ==
    IF rows = << >> THEN acc ELSE SummaryLoop(Tail(rows), SummaryStep(acc, Head(rows)))

\* line 234: { sources: summary, total_processed, total_analysed, total: total_all }
SummaryBody(acc) ==
    [sources |-> acc.sources, total_processed |-> acc.total_processed,
     total_analysed |-> acc.total_analysed, total |-> acc.total]

\* lines 208-237
SummaryResponse(p, dbOk) ==
    IF ~env.pool THEN QResponse("summary", p, NoId, 500, MsgNoDb)
    ELSE IF ~dbOk THEN [QResponse("summary", p, NoId, 500, MsgDb) EXCEPT !.queries = 1]
    ELSE LET out == SummaryLoop(SetToSeq(AggregateRows(p)), SummaryStart)
         IN IF out.thrown
            THEN [QResponse("summary", p, NoId, 500, MsgSummaryThrown) EXCEPT !.queries = 1]
            ELSE [QResponse("summary", p, NoId, 200, "") EXCEPT
                     !.queries = 1, !.summary = SummaryBody(out)]

\* GET /documents/project/:project_id/summary
GetSummary(p) ==
    /\ \E dbOk \in QueryOutcomes : qres' = SummaryResponse(p, dbOk)
    /\ UNCHANGED <<env, qenv, initialized, bucket, fbObjects, sbObjects, documents, now,
                   nextUuid, reqs>>

----------------------------------------------------------------------------
(* The system *)

\* fbCreds: the service account found in the environment ("none": unset or
\*   unparsable; "bad": parsed but rejected by the SDK; "valid")
\* supabase: require('./supabase') is a client;  sbBucket: SUPABASE_BUCKET is set
\* pool: DATABASE_URL is set
Envs == [fbCreds : {"none", "bad", "valid"}, supabase : BOOLEAN, sbBucket : BOOLEAN,
         pool : BOOLEAN]

Init ==
    /\ env \in Envs
    /\ initialized = FALSE
    /\ bucket = Null
    /\ fbObjects = {}
    /\ sbObjects = {}
    /\ documents = {}
    /\ now = T0
    /\ nextUuid = 1
    /\ reqs = [r \in Requests |-> NewRequest]
    /\ qenv = [supabaseUrl |-> <<"https://x.supabase.co">>, fbStorageBucket |-> << >>]
    /\ qres = NoQuery

Next ==
    \/ \E r \in Requests : Receive(r)
    \/ \E r \in Requests : FbStreamError(r)
    \/ \E r \in Requests : FbStreamFinish(r)
    \/ \E r \in Requests : FbSignComplete(r)
    \/ \E r \in Requests : SbPutComplete(r)
    \/ \E r \in Requests : SbSignComplete(r)
    \/ \E r \in Requests : DbInsertComplete(r)
    \/ Tick

Spec == Init /\ [][Next]_vars

----------------------------------------------------------------------------
(* The document query service on its own: a table that already holds rows *)

Doc(n, project, filename, source, status) ==
    [id |-> Uuid(n), project_id |-> project, filename |-> filename,
     file_path |-> Dest(n, filename), source |-> source, status |-> status,
     document_content |-> Null]

\* rows of two projects: every spelling of the sources and statuses, filenames with
\* leading slashes, a repeated filename, an empty and a NULL filename, NULL labels
DocUniverse ==
    { Doc(101, "p1", <<"a">>, "Upload", "pending"),
      Doc(102, "p1", <<"/", "a">>, "upload", "processed"),
      Doc(103, "p1", <<"/", "/", "r", "/", "a", " ", "b">>, "Scrape", "Processed"),
      Doc(104, "p1", <<"a">>, "SCRAPE", "analysed"),
      Doc(105, "p1", << >>, "Other", "Analyzed"),
      [Doc(106, "p1", NullName, Null, Null) EXCEPT !.file_path = NoKey],
      Doc(107, "p2", <<"a">>, "Upload", "constructor") }

\* a document id no row has
UnknownId == Uuid(100)

DocIds == {d.id : d \in DocUniverse} \cup {UnknownId}

InitDocs ==
    /\ env \in {e \in Envs : e.fbCreds = "none"}
    /\ qenv \in QEnvs
    /\ documents \in SUBSET DocUniverse
    /\ sbObjects = {d.file_path : d \in documents}
    /\ fbObjects = {}
    /\ initialized = FALSE
    /\ bucket = Null
    /\ now = T0
    /\ nextUuid = 1
    /\ reqs = [r \in Requests |-> NewRequest]
    /\ qres = NoQuery

NextDocs ==
    \/ \E p \in Projects : ListUploadOrOther(p)
    \/ \E p \in Projects : ListScraped(p)
    \/ \E id \in DocIds : GetPreviewUrl(id)
    \/ \E p \in Projects : GetSummary(p)

SpecDocs == InitDocs /\ [][NextDocs]_vars

----------------------------------------------------------------------------
(* Uploads and previews of the rows they created *)

NextService ==
    \/ Next
    \/ \E d \in documents : GetPreviewUrl(d.id)

SpecService == Init /\ [][NextService]_vars

TypeOK ==
    /\ env \in Envs
    /\ initialized \in BOOLEAN
    /\ bucket \in {Null, FirebaseBucketHandle}
    /\ \A r \in Requests :
         reqs[r].pc \in {"new", "fb_write", "fb_sign", "sb_put", "sb_sign", "db_insert", "done"}

----------------------------------------------------------------------------
(* Vocabulary of the properties *)

Done(r) == reqs[r].pc = "done"

\* the response the client of request r received
Resp(r) == reqs[r].res[1]

Answered(r) == Done(r) /\ Len(reqs[r].res) = 1

\* the rows request r created
RowsOf(r) == {d \in documents : d.id = reqs[r].id}

\* no call to a storage backend or to the database
NoCalls(r) ==
    /\ reqs[r].fbGets = 0 /\ reqs[r].fbWrites = 0 /\ reqs[r].fbSigns = 0
    /\ reqs[r].sbPuts = 0 /\ reqs[r].sbSigns = 0 /\ reqs[r].dbInserts = 0

----------------------------------------------------------------------------
(* Properties of POST /upload *)

\* the Fallback put and the Fallback signing of request r succeeded
FallbackStored(r) == reqs[r].sbPutOutcome = "ok" /\ reqs[r].sbSignOutcome = "ok"

\* the project id request r supplied: project_id, or its alias projectId
Supplied(r) == IF Truthy(reqs[r].project_id) THEN reqs[r].project_id ELSE reqs[r].projectId

\* the case of C1: Primary not used, Fallback stored and signed, project id given,
\* insert accepted
C1_Case(r) ==
    /\ Done(r) /\ reqs[r].fbWrites = 0
    /\ FallbackStored(r)
    /\ Truthy(Supplied(r))
    /\ reqs[r].dbOutcome = "ok"

\* C1: an upload stored and signed by the Fallback, with a project id and an accepted
\* insert, is answered 200 and its document_id identifies exactly one row, whose
\* file_path is the returned name, whose project_id is the supplied one, whose source
\* is "Upload", whose status is "pending" and whose document_content is null.
C1_FallbackUploadPersisted ==
    \A r \in Requests : C1_Case(r) =>
        /\ Answered(r)
        /\ Resp(r).status = 200
        /\ "document_id" \in Resp(r).keys
        /\ \E d \in documents :
             /\ d.id = Resp(r).document_id
             /\ \A e \in documents : e.id = d.id => e = d
             /\ d.file_path = Resp(r).name
             /\ d.project_id = Supplied(r)
             /\ d.source = "Upload"
             /\ d.status = "pending"
             /\ d.document_content = Null

C1_Witness == \E r \in Requests : C1_Case(r) /\ reqs[r].projectId = "p2" /\ ~Truthy(reqs[r].project_id)

\* the Primary attempt of request r failed: getBucket threw, or the stream reported
\* an error after the write was started
PrimaryFailed(r) == reqs[r].fbOutcome \in {"unavailable", "error"}

\* the Fallback client and the name of its bucket are configured
FallbackConfigured == env.supabase /\ env.sbBucket

\* C2 as stated: whenever the Primary write fails, in whichever way, and the Fallback
\* is configured, the Fallback put is attempted and the user never sees the Primary
\* failure.
C2_Original ==
    \A r \in Requests : (Done(r) /\ PrimaryFailed(r) /\ FallbackConfigured) =>
        /\ reqs[r].sbPuts = 1
        /\ Resp(r).error \notin PrimaryMessages

\* C2 (amended): when the Primary client is unavailable (getBucket throws) and the
\* Fallback client and its bucket name are configured, the Fallback put is attempted;
\* a Primary failure is what the user sees only when the Fallback client is not
\* configured or when the write stream reported the error after the write was
\* started, and then the answer is 500 with that error and the Fallback is not tried.
C2_FallbackOnUnavailablePrimary ==
    \A r \in Requests :
        /\ (reqs[r].fbOutcome = "unavailable" /\ FallbackConfigured)
              => reqs[r].sbPuts = 1
        /\ (Done(r) /\ Resp(r).error \in PrimaryMessages)
              => (~env.supabase \/ reqs[r].fbOutcome = "error")
        /\ (Done(r) /\ reqs[r].fbOutcome = "error")
              => /\ Resp(r).status = 500
                 /\ Resp(r).error = MsgFbStream
                 /\ reqs[r].sbPuts = 0

C2_Witness ==
    \E r \in Requests : /\ Done(r) /\ reqs[r].fbOutcome = "unavailable"
                        /\ env.supabase /\ reqs[r].sbPuts = 1
                        /\ reqs[r].sbPutOutcome = "ok"

\* C3: no request sends a write to both backends: the Fallback put is issued only
\* where the Primary attempt failed, and once the Primary write has been started the
\* Fallback is never contacted.
C3_OneBackendPerRequest ==
    \A r \in Requests :
        /\ reqs[r].fbWrites <= 1 /\ reqs[r].sbPuts <= 1
        /\ ~(reqs[r].fbWrites > 0 /\ reqs[r].sbPuts > 0)
        /\ reqs[r].sbPuts > 0 => reqs[r].fbOutcome = "unavailable"
        /\ reqs[r].fbWrites > 0 => (reqs[r].sbPuts = 0 /\ reqs[r].sbSigns = 0)

C3_Witness ==
    \E r \in Requests : /\ Done(r) /\ reqs[r].fbWrites = 1 /\ reqs[r].fbOutcome = "error"
                        /\ env.supabase /\ env.sbBucket

\* the insert is issued at most once, and only after a successful Fallback put and
\* Fallback signing
C4_InsertOnlyAfterFallback(r) ==
    /\ reqs[r].dbInserts <= 1
    /\ reqs[r].dbInserts > 0 => FallbackStored(r)
    /\ RowsOf(r) # {} => reqs[r].dbInserts = 1

\* no row was created for the object request r stored
C4_NoRow(r) ==
    /\ reqs[r].dbInserts = 0
    /\ RowsOf(r) = {}
    /\ \A d \in documents : d.file_path # reqs[r].dest

\* C4 as stated: at most one insert, only after Fallback put and signing; a request
\* whose object the Primary accepted creates no row and answers 200 with only name
\* and url.
C4_Original ==
    \A r \in Requests :
        /\ C4_InsertOnlyAfterFallback(r)
        /\ (Done(r) /\ reqs[r].fbOutcome = "finish") =>
              /\ C4_NoRow(r)
              /\ Resp(r).status = 200
              /\ Resp(r).keys = {"name", "url"}

\* C4 (amended): at most one insert, only after Fallback put and signing; a request
\* whose object the Primary accepted creates no row, whether or not project_id was
\* supplied, and answers 200 with only name and url when the Primary signing
\* succeeds, 500 when it fails.
C4_PrimaryNeverPersists ==
    \A r \in Requests :
        /\ C4_InsertOnlyAfterFallback(r)
        /\ reqs[r].fbOutcome = "finish" => C4_NoRow(r)
        /\ (Done(r) /\ reqs[r].fbOutcome = "finish") =>
              /\ Answered(r)
              /\ IF reqs[r].fbSignOutcome = "ok"
                 THEN Resp(r).status = 200 /\ Resp(r).keys = {"name", "url"}
                 ELSE Resp(r).status = 500 /\ Resp(r).keys = {"error"}

C4_Witness ==
    \E r \in Requests : /\ Done(r) /\ reqs[r].fbOutcome = "finish"
                        /\ reqs[r].fbSignOutcome = "ok"
                        /\ Truthy(reqs[r].project_id) /\ env.pool

\* C5: every row an upload created has a file_path at which the backend that accepted
\* the upload (the Fallback) holds an object.
C5_RowHasObject ==
    \A r \in Requests : \A d \in RowsOf(r) :
        /\ reqs[r].sbPutOutcome = "ok"
        /\ d.file_path = reqs[r].dest
        /\ d.file_path \in sbObjects

\* a row exists, and so does an object no row refers to
C5_Witness ==
    /\ documents # {}
    /\ \E k \in sbObjects : \A d \in documents : d.file_path # k

\* C6: an upload without the file field is answered 400 and calls neither backend nor
\* the database.
C6_NoFileNoCalls ==
    \A r \in Requests : (Done(r) /\ ~reqs[r].file) =>
        /\ Answered(r)
        /\ Resp(r).status = 400
        /\ NoCalls(r)
        /\ RowsOf(r) = {}

C6_Witness == \E r \in Requests : Done(r) /\ ~reqs[r].file /\ env.fbCreds = "valid"

\* what C7 promises for request r: 400, no row, the object still in Fallback storage
C7_Orphaned(r) ==
    /\ Answered(r)
    /\ Resp(r).status = 400
    /\ reqs[r].dbInserts = 0
    /\ RowsOf(r) = {}
    /\ \A d \in documents : d.file_path # reqs[r].dest
    /\ reqs[r].dest \in sbObjects

FailedAfterWrite(r) ==
    \/ reqs[r].fbOutcome = "finish" /\ reqs[r].fbSignOutcome = "error"
    \/ reqs[r].sbPutOutcome = "ok" /\ reqs[r].sbSignOutcome \in {"error", "throw"}
    \/ FallbackStored(r) /\ Truthy(Supplied(r)) /\ ~env.pool
    \/ reqs[r].sbPutOutcome = "ok" /\ reqs[r].dbOutcome = "error"

\* the object request r wrote is in the backend that accepted it
ObjectKept(r) ==
    /\ reqs[r].fbOutcome = "finish" => reqs[r].dest \in fbObjects
    /\ reqs[r].sbPutOutcome = "ok" => reqs[r].dest \in sbObjects

\* C8: a request that fails after its object write succeeded is answered 500 with an
\* error message, has no row, and its object remains in storage.
C8_FailureAfterWriteLeavesOrphan ==
    \A r \in Requests : (Done(r) /\ FailedAfterWrite(r)) =>
        /\ Answered(r)
        /\ Resp(r).status = 500
        /\ Resp(r).keys = {"error"}
        /\ Resp(r).error # ""
        /\ RowsOf(r) = {}
        /\ \A d \in documents : d.file_path # reqs[r].dest
        /\ ObjectKept(r)

C8_Witness ==
    \E r \in Requests : /\ Done(r) /\ reqs[r].sbPutOutcome = "ok"
                        /\ reqs[r].dbOutcome = "error"

\* C9: with the Primary client unavailable and no Fallback client, the answer is 500
\* with the Primary error's message, and nothing is written or inserted.
C9_NoBackendAtAll ==
    \A r \in Requests : (Done(r) /\ reqs[r].fbOutcome = "unavailable" /\ ~env.supabase) =>
        /\ Answered(r)
        /\ Resp(r).status = 500
        /\ Resp(r).error = GetBucket.err
        /\ Resp(r).error \in {MsgFbNotInit, MsgFbCert}
        /\ reqs[r].fbWrites = 0 /\ reqs[r].sbPuts = 0 /\ reqs[r].dbInserts = 0
        /\ reqs[r].dest \notin fbObjects \cup sbObjects
        /\ RowsOf(r) = {}

C9_Witness ==
    \E r \in Requests : /\ Done(r) /\ reqs[r].fbOutcome = "unavailable" /\ ~env.supabase
                        /\ env.fbCreds = "bad" /\ env.pool

\* seconds between the signing call and the expiry of the URL it produced
TtlSeconds(r) ==
    IF Resp(r).url.backend = "firebase"
    THEN (Resp(r).url.expires - reqs[r].signAt) \div 1000
    ELSE Resp(r).url.expiresIn

\* the backend that accepted the write of request r
AcceptedBy(r) ==
    IF reqs[r].fbOutcome = "finish" THEN "firebase"
    ELSE IF reqs[r].sbPutOutcome = "ok" THEN "supabase"
    ELSE "none"

\* C10: every 200 answer carries name and url; name is "<timestamp>_<originalName>",
\* the key under which this request wrote its object, and url is the read URL signed
\* for that key, with one hour to expiry, by the backend that accepted the write.
C10_NameAndUrlOfOwnObject ==
    \A r \in Requests : (Done(r) /\ Resp(r).status = 200) =>
        /\ {"name", "url"} \subseteq Resp(r).keys
        /\ Resp(r).name = Digits(reqs[r].timestamp) \o <<"_">> \o reqs[r].originalName
        /\ reqs[r].timestamp \in T0 .. now
        /\ AcceptedBy(r) # "none"
        /\ Resp(r).name \in (IF AcceptedBy(r) = "firebase" THEN fbObjects ELSE sbObjects)
        /\ Resp(r).url.backend = AcceptedBy(r)
        /\ Resp(r).url.path = Resp(r).name
        /\ TtlSeconds(r) = 3600

C10_Witness ==
    \E r \in Requests : /\ Done(r) /\ Resp(r).status = 200
                        /\ AcceptedBy(r) = "firebase" /\ reqs[r].signAt > reqs[r].timestamp

----------------------------------------------------------------------------
(* Properties of GET /documents/scrape/:document_id *)

\* the last call was a preview
Previewed == qres.op = "preview"

\* the row the previewed id names
HasDoc(id) == \E d \in documents : d.id = id

DocOf(id) == CHOOSE d \in documents : d.id = id

\* the preview's lookup was answered by the database
LookupAnswered == Previewed /\ env.pool /\ qres.queries = 1 /\ qres.error # MsgDb

\* the Secondary backend is configured: client, URL and bucket all present
SecondaryConfigured == env.supabase /\ qenv.supabaseUrl # << >> /\ env.sbBucket

\* the preview found a document with a filename and went on to choose a backend
PreviewFound ==
    /\ LookupAnswered /\ HasDoc(qres.id)
    /\ DocOf(qres.id).filename \notin {<< >>, NullName}

\* f without its leading slashes: a suffix of f that does not start with a slash,
\* preceded in f by slashes only
IsNormalizedOf(n, f) ==
    /\ Len(n) <= Len(f)
    /\ n = SubSeq(f, Len(f) - Len(n) + 1, Len(f))
    /\ \A i \in 1..(Len(f) - Len(n)) : f[i] = "/"
    /\ n # << >> => n[1] # "/"

\* u ends with the percent-encoding of n, which holds no slash and no space
EndsWithEncoded(u, n) ==
    LET e == EncodeURIComponent(n) IN
    /\ Len(e) <= Len(u)
    /\ SubSeq(u, Len(u) - Len(e) + 1, Len(u)) = e
    /\ \A i \in 1..Len(e) : e[i] \notin {"/", " "}
    /\ Len(e) = Len(n) + 2 * Cardinality({i \in 1..Len(n) : n[i] \in {"/", " "}})

\* the response is 200 with the public object URL of the Secondary backend for the
\* normalized, percent-encoded filename
C11_PublicUrlAnswer ==
    LET n == Normalize(DocOf(qres.id).filename) IN
    /\ qres.status = 200
    /\ qres.kind = "public"
    /\ qres.error = ""
    /\ IsNormalizedOf(n, DocOf(qres.id).filename)
    /\ EndsWithEncoded(qres.url, n)
    /\ qres.url = StripTrailingSlash(qenv.supabaseUrl) \o <<"/storage/v1/object/public/">>
                     \o SbBucketName \o <<"/">> \o EncodeURIComponent(n)
    /\ qres.url[1] = "https://x.supabase.co" /\ qres.url[2] = "/storage/v1/object/public/"

\* C11 as stated: with the Secondary backend configured, whenever the signing call
\* fails, by an error result or by a raised exception, the answer is 200 with the
\* public object URL, never an error.
C11_Original ==
    (PreviewFound /\ SecondaryConfigured /\ qres.signOutcome \in {"error", "throw"})
        => C11_PublicUrlAnswer

\* C11 (amended): with the Secondary backend configured, when the signing call reports
\* its failure as an error result (or returns no URL) the answer is 200 with the
\* public object URL of that backend for the normalized, percent-encoded path; when
\* the signing call raises an exception the answer is 500.
C11_PublicUrlOnSignError ==
    /\ (PreviewFound /\ SecondaryConfigured /\ qres.signOutcome \in {"error", "empty"})
          => C11_PublicUrlAnswer
    /\ (PreviewFound /\ SecondaryConfigured /\ qres.signOutcome = "throw")
          => /\ qres.status = 500
             /\ qres.error = MsgPreviewFailed
             /\ qres.kind = "none" /\ qres.url = << >> /\ qres.signed = NoUrl

C11_Witness ==
    /\ PreviewFound /\ SecondaryConfigured /\ qres.signOutcome = "error"
    /\ DocOf(qres.id).filename = <<"/", "/", "r", "/", "a", " ", "b">>
    /\ qenv.supabaseUrl = <<"https://x.supabase.co", "/">>

\* C12: the preview chooses its backend by strict precedence: with the Secondary
\* configured the legacy backend is never used; without it and with the legacy bucket
\* configured the answer is the legacy media URL of the normalized path; with neither
\* the answer is a 500 configuration error. The path used has no leading slash.
C12_BackendPrecedence ==
    PreviewFound =>
        LET f == DocOf(qres.id).filename
            n == Normalize(f)
        IN /\ IsNormalizedOf(n, f)
           /\ SecondaryConfigured =>
                 /\ qres.kind # "legacy"
                 /\ qres.signs = 1
                 /\ qres.kind = "signed" => (qres.signed.path = n /\ qres.signed.backend = "supabase")
                 /\ qres.kind = "public" => EndsWithEncoded(qres.url, n)
           /\ (~SecondaryConfigured /\ qenv.fbStorageBucket # << >>) =>
                 /\ qres.status = 200
                 /\ qres.kind = "legacy"
                 /\ qres.signs = 0
                 /\ qres.url = <<"https://firebasestorage.googleapis.com/v0/b/">>
                                  \o qenv.fbStorageBucket \o <<"/o/">>
                                  \o EncodeURIComponent(n) \o <<"?alt=media">>
           /\ (~SecondaryConfigured /\ qenv.fbStorageBucket = << >>) =>
                 /\ qres.status = 500
                 /\ qres.error = MsgNoPreviewStorage
                 /\ qres.kind = "none" /\ qres.signs = 0

C12_Witness ==
    /\ PreviewFound /\ qres.kind = "legacy"
    /\ env.supabase /\ env.sbBucket /\ qenv.supabaseUrl = << >>
    /\ DocOf(qres.id).filename[1] = "/"

\* C13: the preview answers 404 when no row has the id and 500 when the row's
\* filename is empty or NULL; in both cases no storage call is made and no URL is
\* returned.
C13_NotFoundOrNoFilename ==
    LookupAnswered =>
        /\ ~HasDoc(qres.id) =>
              /\ qres.status = 404 /\ qres.error = MsgNotFound
              /\ qres.signs = 0
              /\ qres.kind = "none" /\ qres.url = << >> /\ qres.signed = NoUrl
        /\ (HasDoc(qres.id) /\ DocOf(qres.id).filename \in {<< >>, NullName}) =>
              /\ qres.status = 500 /\ qres.error = MsgNoFilename
              /\ qres.signs = 0
              /\ qres.kind = "none" /\ qres.url = << >> /\ qres.signed = NoUrl

C13_Witness ==
    /\ LookupAnswered /\ HasDoc(qres.id) /\ DocOf(qres.id).filename = NullName
    /\ SecondaryConfigured /\ qres.status = 500

----------------------------------------------------------------------------
(* Properties of GET /documents/project/:project_id/summary *)

\* the last call was a summary that was answered 200
Summarised == qres.op = "summary" /\ qres.status = 200

RECURSIVE SumOfTotals(_, _)
\* the sum of the per-source totals of the sources named in keys
SumOfTotals(sources, keys) ==
    IF keys = {} THEN 0
    ELSE LET k == CHOOSE x \in keys : TRUE
         IN sources[k].total + SumOfTotals(sources, keys \ {k})

RECURSIVE SumOfCounts(_, _)
\* the sum of the per-status counts of the statuses named in keys
SumOfCounts(statuses, keys) ==
    IF keys = {} THEN 0
    ELSE LET k == CHOOSE x \in keys : TRUE
         IN statuses[k][1] + SumOfCounts(statuses, keys \ {k})

RECURSIVE SumOfRows(_)
\* the sum of the counts of a set of aggregate rows
SumOfRows(rows) ==
    IF rows = {} THEN 0
    ELSE LET r == CHOOSE x \in rows : TRUE IN r.count + SumOfRows(rows \ {r})

\* the spellings of the three counted statuses that differ by case only
ProcessedSpellings == {"processed", "Processed", "PROCESSED"}

AnalysedSpellings ==
    {"analysed", "Analysed", "ANALYSED", "analyzed", "Analyzed", "ANALYZED"}

\* the rows of the project the summary was asked for
Mine == {d \in documents : d.project_id = qres.project}

\* C14 as stated: for every set of rows the aggregate query returns, total is the sum
\* of the per-source totals, every per-source total is the sum of its per-status
\* counts, and total = total_processed + total_analysed + the counts of the rows whose
\* status is neither processed nor analysed.
C14_TotalsAddUp ==
    Summarised =>
        LET S == qres.summary
            others == {r \in AggregateRows(qres.project) :
                          r.status \notin ProcessedSpellings \cup AnalysedSpellings}
        IN /\ S.total = SumOfTotals(S.sources, DOMAIN S.sources)
           /\ S.total = S.total_processed + S.total_analysed + SumOfRows(others)
           /\ \A src \in DOMAIN S.sources :
                 /\ \A st \in DOMAIN S.sources[src].status : IsNumber(S.sources[src].status[st])
                 /\ S.sources[src].total
                       = SumOfCounts(S.sources[src].status, DOMAIN S.sources[src].status)

\* the rows of the example: (A, processed, 3), (A, analysed, 2), (B, pending, 1)
ExampleRows ==
    << [source |-> "A", status |-> "processed", count |-> 3],
       [source |-> "A", status |-> "analysed", count |-> 2],
       [source |-> "B", status |-> "pending", count |-> 1] >>

\* C15: total_processed is the number of rows whose status is "processed" in any
\* case, total_analysed the number whose status is "analysed" or "analyzed" in any
\* case, a NULL source or status is reported under "unknown", and the example rows
\* give A.total = 5, B.total = 1, total_processed = 3, total_analysed = 2, total = 6.
C15_ProcessedAndAnalysed ==
    /\ Summarised =>
          LET S == qres.summary
              nullSource == {d \in Mine : d.source = Null}
              nullStatus == {d \in Mine : d.status = Null}
          IN /\ S.total_processed = Cardinality({d \in Mine : d.status \in ProcessedSpellings})
             /\ S.total_analysed = Cardinality({d \in Mine : d.status \in AnalysedSpellings})
             /\ Null \notin DOMAIN S.sources
             /\ \A src \in DOMAIN S.sources : Null \notin DOMAIN S.sources[src].status
             /\ nullSource # {} =>
                   /\ "unknown" \in DOMAIN S.sources
                   /\ S.sources["unknown"].total = Cardinality(nullSource)
             /\ \A d \in nullStatus :
                   LET src == IF d.source = Null THEN "unknown" ELSE d.source
                   IN /\ "unknown" \in DOMAIN S.sources[src].status
                      /\ S.sources[src].status["unknown"]
                            = <<Cardinality({e \in nullStatus : e.source = d.source})>>
    /\ LET E == SummaryBody(SummaryLoop(ExampleRows, SummaryStart))
       IN /\ E.sources["A"].total = 5
          /\ E.sources["B"].total = 1
          /\ E.sources["A"].status = [st \in {"processed", "analysed"} |->
                                         IF st = "processed" THEN <<3>> ELSE <<2>>]
          /\ E.total_processed = 3
          /\ E.total_analysed = 2
          /\ E.total = 6

C15_Witness ==
    /\ Summarised /\ qres.project = "p1"
    /\ {Uuid(102), Uuid(103), Uuid(104), Uuid(105), Uuid(106)} \subseteq {d.id : d \in documents}
    /\ qres.summary.total_processed = 2
    /\ qres.summary.total_analysed = 2
    /\ qres.summary.sources["unknown"].status["unknown"] = <<1>>

----------------------------------------------------------------------------
(* Properties of the two listings *)

\* the last call was a listing that was answered 200
Listed(op) == qres.op = op /\ qres.status = 200

\* the ids of a sequence of rows
IdsOf(rows) == {rows[i].id : i \in 1..Len(rows)}

\* the ids of the rows of the answer
ListedIds == IdsOf(qres.documents)

UploadOrOtherSpellings == {"upload", "Upload", "UPLOAD", "other", "Other", "OTHER"}

ScrapeSpellings == {"scrape", "Scrape", "SCRAPE"}

\* C16: the upload-or-other listing returns exactly the project's documents whose
\* source is "upload" or "other" in any case and the scraped listing exactly those
\* whose source is "scrape" in any case; no document is in both listings and no
\* document of another project is in either.
C16_ListingsPartition ==
    /\ Listed("upload-or-other") =>
          /\ ListedIds = {d.id : d \in {e \in Mine : e.source \in UploadOrOtherSpellings}}
          /\ Len(qres.documents) = Cardinality(ListedIds)
          /\ \A i \in 1..Len(qres.documents) : qres.documents[i] \in Mine
    /\ Listed("scraped") =>
          /\ ListedIds = {d.id : d \in {e \in Mine : e.source \in ScrapeSpellings}}
          /\ Len(qres.documents) = Cardinality(ListedIds)
          /\ \A i \in 1..Len(qres.documents) :
                DocOf(qres.documents[i].id).project_id = qres.project
    /\ \A p \in Projects :
          IdsOf(UploadOrOtherRows(p)) \cap IdsOf(ScrapedRows(p)) = {}

C16_Witness ==
    /\ Listed("upload-or-other") /\ qres.project = "p1"
    /\ documents = DocUniverse
    /\ Len(qres.documents) = 3

----------------------------------------------------------------------------
(* Properties of the four queries together *)

----------------------------------------------------------------------------
(* POST /upload: responses over all interleavings *)

\* every external call of an upload that is pending eventually settles
FairSpec ==
    /\ Spec
    /\ \A r \in Requests :
          /\ WF_vars(FbStreamError(r) \/ FbStreamFinish(r))
          /\ WF_vars(FbSignComplete(r))
          /\ WF_vars(SbPutComplete(r))
          /\ WF_vars(SbSignComplete(r))
          /\ WF_vars(DbInsertComplete(r))

\* C18: whatever the order of the stream's callbacks, the signing results and the
\* fallback branch, no upload request is sent more than one response.
C18_AtMostOneResponse ==
    \A r \in Requests : Len(reqs[r].res) <= 1

C18_Witness ==
    /\ \A r \in Requests : Done(r) /\ Len(reqs[r].res) = 1
    /\ \E r \in Requests : reqs[r].fbOutcome = "error"
    /\ \E r \in Requests : reqs[r].fbSignOutcome = "ok"

\* C19: every upload request that was received is eventually answered, provided
\* every external call it waits for eventually settles.
C19_EventuallyAnswered ==
    \A r \in Requests : (reqs[r].pc # "new") ~> (Len(reqs[r].res) >= 1)

C19_Witness ==
    /\ \A r \in Requests : Done(r) /\ Len(reqs[r].res) = 1
    /\ \E r \in Requests : reqs[r].dbOutcome = "error"
    /\ \E r \in Requests : reqs[r].fbSignOutcome = "error" \/ reqs[r].sbPutOutcome = "throw"

----------------------------------------------------------------------------
(* Upload followed by preview *)

\* the previewed row was created by a successful upload
PreviewOfUploaded ==
    /\ PreviewFound
    /\ \E r \in Requests : reqs[r].dbOutcome = "ok" /\ reqs[r].id = qres.id

\* C20 as stated: for every row a successful upload created, a later preview of its
\* id asks the storage backend for a URL of the row's storage key, its file_path, so
\* the preview designates the object the upload stored.
C20_PreviewDesignatesUpload ==
    PreviewOfUploaded =>
        /\ DocOf(qres.id).file_path \in sbObjects
        /\ qres.kind = "signed" => qres.signed.path = DocOf(qres.id).file_path
        /\ qres.kind = "public" => EndsWithEncoded(qres.url, DocOf(qres.id).file_path)

----------------------------------------------------------------------------
(* Properties of firebase.js *)

\* request r called firebase.getBucket()
CalledGetBucket(r) == reqs[r].fbGets > 0

\* C21: initialized is true only if the cached bucket is not null; once a getBucket
\* call has succeeded, every later call returns the same cached handle and does not
\* initialise the backend again; and while no usable credentials are present, every
\* getBucket call throws and leaves initialized false and the bucket null.
C21_LazyHandle ==
    /\ initialized => bucket # Null
    /\ \A r1, r2 \in Requests :
          (r1 < r2 /\ CalledGetBucket(r1) /\ CalledGetBucket(r2) /\ reqs[r1].fbHandle # Null)
             => /\ reqs[r2].fbHandle = reqs[r1].fbHandle
                /\ reqs[r2].fbHandle = bucket
                /\ ~reqs[r2].fbInit
    /\ env.fbCreds # "valid" =>
          /\ ~initialized /\ bucket = Null
          /\ \A r \in Requests :
                CalledGetBucket(r) =>
                   /\ reqs[r].fbHandle = Null
                   /\ reqs[r].fbOutcome = "unavailable"
                   /\ reqs[r].fbErr \in {MsgFbNotInit, MsgFbCert}

C21_Witness ==
    /\ \A r \in Requests : CalledGetBucket(r) /\ reqs[r].fbHandle = FirebaseBucketHandle
    /\ reqs[1].fbInit
    /\ \A r \in Requests \ {1} : ~reqs[r].fbInit
    /\ initialized

----------------------------------------------------------------------------
(* Concurrent uploads of the same storage key *)

\* requests r1 and r2 computed the same storage key and both went to the Fallback
SameKeyThroughFallback(r1, r2) ==
    /\ r1 # r2
    /\ reqs[r1].dest # NoKey /\ reqs[r1].dest = reqs[r2].dest
    /\ reqs[r1].sbPuts > 0 /\ reqs[r2].sbPuts > 0

\* C22: when two upload requests compute the same storage key and both go through
\* the Fallback backend, at most one of them has its put accepted, so at most one
\* row is created for that key and no two rows share a file_path.
C22_OneRowPerKey ==
    /\ \A r1, r2 \in Requests :
          SameKeyThroughFallback(r1, r2) =>
             /\ ~(reqs[r1].sbPutOutcome = "ok" /\ reqs[r2].sbPutOutcome = "ok")
             /\ Cardinality({d \in documents : d.file_path = reqs[r1].dest}) <= 1
    /\ \A d1, d2 \in documents : d1.file_path = d2.file_path => d1 = d2

C22_Witness ==
    /\ SameKeyThroughFallback(1, 2)
    /\ reqs[1].sbPutOutcome = "error" /\ reqs[2].sbPutOutcome = "ok"
    /\ reqs[2].dbOutcome = "ok"
    /\ Cardinality({d \in documents : d.file_path = reqs[1].dest}) = 1
    /\ \A r \in Requests : Done(r)

====
